---- MODULE Spec2Model ----
(***************************************************************************)
(* A model of the FastAPI request-body demo: main.py (the three handlers   *)
(* and the process-local list fake_db) and models.py (the UserCreate and   *)
(* UserOut schemas).                                                       *)
(*                                                                         *)
(* Strings are sequences of one-character strings, so that prefixing,      *)
(* stripping, lower-casing and substring search are computed, not assumed. *)
(* A JSON value is a tagged record: JStr(s) or JNull.  A JSON object is a  *)
(* function from the keys it carries to JSON values.                       *)
(***************************************************************************)
EXTENDS Integers, Sequences, FiniteSets, TLC

VARIABLES
    fake_db,    \* the process-local list of stored dicts, in insertion order
    request,    \* the last request served: method, path and JSON body
    response,   \* the response to it: status and JSON body
    history     \* one entry per successful create_user call, in call order:
                \* the password sent, the clock reading, the body returned

vars == <<fake_db, request, response, history>>

(* ------------------------------ bounds -------------------------------- *)

\* the store is explored up to this many records
MaxUsers == 2

\* datetime.now() reads a value in 1..MaxTime
MaxTime == 2

(* --------------------------- string helpers --------------------------- *)

JStr(s) == [type |-> "str", val |-> s]

JNull == [type |-> "null", val |-> <<>>]

\* a JSON number (its value plays no part)
JNum == [type |-> "num", val |-> <<>>]

\* Python's `sub in s` on strings
Contains(s, sub) ==
    \E i \in 1..(Len(s) - Len(sub) + 1) : SubSeq(s, i, i + Len(sub) - 1) = sub

\* str.strip(): leading and trailing blanks removed
RECURSIVE LStrip(_)
LStrip(s) == IF s # <<>> /\ Head(s) = " " THEN LStrip(Tail(s)) ELSE s

RECURSIVE RStrip(_)
RStrip(s) ==
    IF s # <<>> /\ s[Len(s)] = " " THEN RStrip(SubSeq(s, 1, Len(s) - 1)) ELSE s

Strip(s) == RStrip(LStrip(s))

\* str.lower() on the letters the inputs use
LowerChar(c) ==
    CASE c = "A" -> "a"
      [] c = "B" -> "b"
      [] c = "C" -> "c"
      [] OTHER -> c

Lower(s) == [i \in 1..Len(s) |-> LowerChar(s[i])]

\* the positions of character c in s
Positions(s, c) == {i \in 1..Len(s) : s[i] = c}

(* ------------------------- EmailStr (models.py) ----------------------- *)

\* the domain part: has a period, and no empty label
DomainOk(d) ==
    /\ d # <<>>
    /\ Positions(d, ".") # {}
    /\ d[1] # "."
    /\ d[Len(d)] # "."
    /\ \A i \in 1..(Len(d) - 1) : ~(d[i] = "." /\ d[i + 1] = ".")

\* a looser check: any string with an @-sign after a first character
EmailSyntaxOk_at_only(s) ==
    /\ Cardinality(Positions(s, "@")) = 1
    /\ (CHOOSE i \in Positions(s, "@") : TRUE) > 1

\* local-part@domain, one @-sign, no blank inside
EmailSyntaxOk(s) ==
    /\ Cardinality(Positions(s, "@")) = 1
    /\ Positions(s, " ") = {}
    /\ LET at == CHOOSE i \in Positions(s, "@") : TRUE
       IN  /\ at > 1
           /\ DomainOk(SubSeq(s, at + 1, Len(s)))

\* the value EmailStr hands to the model: stripped, domain lower-cased
EmailNormalized(s) ==
    LET t == Strip(s)
        at == CHOOSE i \in Positions(t, "@") : TRUE
    IN  SubSeq(t, 1, at) \o Lower(SubSeq(t, at + 1, Len(t)))

\* EmailStr validation of a string: accepted or not
EmailStrOk(s) == EmailSyntaxOk(Strip(s))

(* ----------------------------- UserCreate ----------------------------- *)

ErrorEntry(kind, field) == [type |-> kind, loc |-> <<"body", field>>]

\* a required `str` field of the body
RequiredStrErrors(body, field) ==
    IF field \notin DOMAIN body THEN <<ErrorEntry("missing", field)>>
    ELSE IF body[field].type # "str" THEN <<ErrorEntry("string_type", field)>>
    ELSE <<>>

\* email: EmailStr
EmailErrors(body) ==
    IF RequiredStrErrors(body, "email") # <<>> THEN RequiredStrErrors(body, "email")
    ELSE IF ~EmailStrOk(body["email"].val) THEN <<ErrorEntry("value_error", "email")>>
    ELSE <<>>

\* full_name declared without its default: a required field
FullNameErrors_required(body) ==
    IF "full_name" \notin DOMAIN body THEN <<ErrorEntry("missing", "full_name")>>
    ELSE <<>>

\* full_name: Optional[str] = None; absent and null are both accepted
FullNameErrors(body) ==
    IF "full_name" \notin DOMAIN body THEN <<>>
    ELSE IF body["full_name"].type \notin {"str", "null"}
         THEN <<ErrorEntry("string_type", "full_name")>>
    ELSE <<>>

\* validation that stops at the first failing field
UserCreateErrors_first_only(body) ==
    LET all == RequiredStrErrors(body, "username") \o EmailErrors(body)
                  \o RequiredStrErrors(body, "password") \o FullNameErrors(body)
    IN  IF all = <<>> THEN <<>> ELSE <<Head(all)>>

\* every field is validated and the errors are collected in field order
UserCreateErrors(body) ==
    RequiredStrErrors(body, "username") \o EmailErrors(body)
        \o RequiredStrErrors(body, "password") \o FullNameErrors(body)

\* a model that keeps the email as it was sent
UserCreate_raw_email(body) ==
    [username  |-> body["username"].val,
     email     |-> body["email"].val,
     password  |-> body["password"].val,
     full_name |-> IF "full_name" \in DOMAIN body THEN body["full_name"] ELSE JNull]

\* the validated model (defined when UserCreateErrors(body) is empty)
UserCreate(body) ==
    [username  |-> body["username"].val,
     email     |-> EmailNormalized(body["email"].val),
     password  |-> body["password"].val,
     full_name |-> IF "full_name" \in DOMAIN body THEN body["full_name"] ELSE JNull]

(* ------------------------------ UserOut ------------------------------- *)

\* datetime.isoformat() of a clock reading, and its inverse
DigitChars == <<"0", "1", "2", "3", "4", "5", "6", "7", "8", "9">>

isoformat(t) == <<"T", DigitChars[t + 1]>>

fromisoformat(s) == (CHOOSE i \in 1..Len(DigitChars) : DigitChars[i] = s[2]) - 1

\* a response model that lets every attribute through
UserOut_unfiltered(obj) == obj

\* a response model without the full_name field
UserOut_without_full_name(obj) ==
    [username  |-> obj.username,
     email     |-> EmailNormalized(obj.email),
     join_date |-> obj.join_date]

\* response_model=UserOut: the declared fields are read off the returned
\* object (email through EmailStr again), everything else is dropped
UserOut(obj) ==
    [username  |-> obj.username,
     email     |-> EmailNormalized(obj.email),
     full_name |-> obj.full_name,
     join_date |-> obj.join_date]

\* the JSON encoding of a returned object, key by key: a datetime becomes its
\* ISO string, an Optional[str] stays null or string, a str a string
jsonable_encoder(obj) ==
    [k \in DOMAIN obj |->
        IF k = "join_date" THEN JStr(isoformat(obj[k]))
        ELSE IF k = "full_name" THEN obj[k]
        ELSE JStr(obj[k])]

(* ------------------------------ handlers ------------------------------ *)

HTTP_200_OK == 200

HTTP_201_CREATED == 201

HTTP_422_UNPROCESSABLE == 422

\* f"hashed_{password}"
HashedPrefix == <<"h", "a", "s", "h", "e", "d", "_">>

hashed_password(password) == HashedPrefix \o password

\* the dict create_user builds from the validated model
db_user_of(user_data, now) ==
    [username        |-> user_data.username,
     email           |-> user_data.email,
     full_name       |-> user_data.full_name,
     join_date       |-> now,
     hashed_password |-> hashed_password(user_data.password)]

\* a handler that inserts the new record at the front of the list
create_user_prepend(body, now, db) ==
    IF UserCreateErrors(body) # <<>>
    THEN [db       |-> db,
          response |-> [status |-> HTTP_422_UNPROCESSABLE,
                        body   |-> [detail |-> UserCreateErrors(body)]]]
    ELSE LET db_user == db_user_of(UserCreate(body), now)
         IN  [db       |-> <<db_user>> \o db,
              response |-> [status |-> HTTP_201_CREATED,
                            body   |-> jsonable_encoder(UserOut(db_user))]]

\* a handler that refuses a username that is already stored
create_user_unique(body, now, db) ==
    IF UserCreateErrors(body) # <<>>
    THEN [db       |-> db,
          response |-> [status |-> HTTP_422_UNPROCESSABLE,
                        body   |-> [detail |-> UserCreateErrors(body)]]]
    ELSE IF \E i \in 1..Len(db) : db[i].username = UserCreate(body).username
    THEN [db       |-> db,
          response |-> [status |-> HTTP_422_UNPROCESSABLE,
                        body   |-> [detail |-> <<ErrorEntry("value_error", "username")>>]]]
    ELSE LET db_user == db_user_of(UserCreate(body), now)
         IN  [db       |-> Append(db, db_user),
              response |-> [status |-> HTTP_201_CREATED,
                            body   |-> jsonable_encoder(UserOut(db_user))]]

\* POST /users/ on store db with clock reading now: the new store and the response
create_user(body, now, db) ==
    IF UserCreateErrors(body) # <<>>
    THEN [db       |-> db,
          response |-> [status |-> HTTP_422_UNPROCESSABLE,
                        body   |-> [detail |-> UserCreateErrors(body)]]]
    ELSE LET db_user == db_user_of(UserCreate(body), now)
         IN  [db       |-> Append(db, db_user),
              response |-> [status |-> HTTP_201_CREATED,
                            body   |-> jsonable_encoder(UserOut(db_user))]]

\* "FastAPI Server is running!"
RunningMessage ==
    <<"F", "a", "s", "t", "A", "P", "I", " ", "S", "e", "r", "v", "e", "r", " ",
      "i", "s", " ", "r", "u", "n", "n", "i", "n", "g", "!">>

\* GET /
root(db) ==
    [db       |-> db,
     response |-> [status |-> HTTP_200_OK,
                   body   |-> [message |-> JStr(RunningMessage)]]]

\* a listing that empties the list it returns
get_all_users_draining(db) ==
    [db       |-> <<>>,
     response |-> [status |-> HTTP_200_OK,
                   body   |-> [i \in 1..Len(db) |-> jsonable_encoder(db[i])]]]

\* GET /users/
get_all_users(db) ==
    [db       |-> db,
     response |-> [status |-> HTTP_200_OK,
                   body   |-> [i \in 1..Len(db) |-> jsonable_encoder(db[i])]]]

(* ------------------------------- inputs ------------------------------- *)

Absent == [type |-> "absent", val |-> <<>>]

\* the JSON object carrying the fields that are not Absent
Body(u, e, p, f) ==
    LET all  == [username |-> u, email |-> e, password |-> p, full_name |-> f]
        keys == {k \in DOMAIN all : all[k] # Absent}
    IN  [k \in keys |-> all[k]]

GoodEmail == <<"a", "@", "b", ".", "c">>

\* accepted too: upper case in the domain and a trailing blank
UnnormalizedEmail == <<"a", "@", "B", ".", "c", " ">>

\* no @-sign; no period in the domain
BadEmails == {<<"a", "b">>, <<"a", "@", "b">>}

\* passwords share no character with the other submitted values, so a
\* password found in a response was put there by the service
Passwords == {<<"p", "w">>, <<"q", "w">>}

\* bodies that pass validation: all four fields; no full_name, with the same
\* username and (once normalised) email but another password; an empty
\* username with a null full_name; no full_name
ValidBodies ==
    {Body(JStr(<<"u">>), JStr(GoodEmail), JStr(<<"p", "w">>), JStr(<<"F">>)),
     Body(JStr(<<"u">>), JStr(UnnormalizedEmail), JStr(<<"q", "w">>), Absent),
     Body(JStr(<<>>), JStr(GoodEmail), JStr(<<"p", "w">>), JNull),
     Body(JStr(<<"u">>), JStr(GoodEmail), JStr(<<"p", "w">>), Absent)}

\* bodies with any combination of missing required fields and a malformed email
DefectBodies ==
    {Body(u, e, p, Absent) :
        u \in {Absent, JStr(<<"u">>)},
        e \in {Absent, JStr(GoodEmail), JStr(<<"a", "b">>)},
        p \in {Absent, JStr(<<"p", "w">>)}}
      \ ValidBodies

\* bodies with a value of the wrong JSON type, or a domain without a period
TypeDefectBodies ==
    {Body(JNull, JStr(GoodEmail), JStr(<<"p", "w">>), Absent),
     Body(JStr(<<"u">>), JNull, JStr(<<"p", "w">>), Absent),
     Body(JStr(<<"u">>), JStr(GoodEmail), JNull, Absent),
     Body(JStr(<<"u">>), JStr(GoodEmail), JStr(<<"p", "w">>), JNum),
     Body(JStr(<<"u">>), JStr(<<"a", "@", "b">>), JStr(<<"p", "w">>), JStr(<<"F">>))}

Payloads == ValidBodies \cup DefectBodies \cup TypeDefectBodies

\* datetime.now(): the wall clock, which may be set back between two calls
Times == 1..MaxTime

NoBody == [k \in {} |-> JNull]

(* ---------------------------- state machine --------------------------- *)

Init ==
    /\ fake_db = <<>>
    /\ request = [method |-> "", path |-> "", body |-> NoBody]
    /\ response = [status |-> 0, body |-> NoBody]
    /\ history = <<>>

\* POST /users/
CreateUser ==
    \E body \in Payloads, now \in Times :
        LET r == create_user(body, now, fake_db)
        IN  /\ Len(r.db) <= MaxUsers
            /\ fake_db' = r.db
            /\ request' = [method |-> "POST", path |-> "/users/", body |-> body]
            /\ response' = r.response
            /\ history' =
                 IF r.response.status = HTTP_201_CREATED
                 THEN Append(history, [password |-> body["password"].val,
                                       now      |-> now,
                                       out      |-> r.response.body])
                 ELSE history

\* GET /
Root ==
    /\ fake_db' = root(fake_db).db
    /\ request' = [method |-> "GET", path |-> "/", body |-> NoBody]
    /\ response' = root(fake_db).response
    /\ UNCHANGED history

\* GET /users/
GetAllUsers ==
    /\ fake_db' = get_all_users(fake_db).db
    /\ request' = [method |-> "GET", path |-> "/users/", body |-> NoBody]
    /\ response' = get_all_users(fake_db).response
    /\ UNCHANGED history

Next == CreateUser \/ Root \/ GetAllUsers

Spec == Init /\ [][Next]_vars

(* ------------------------- vocabulary of the claims ------------------- *)

IsCreate == request.method = "POST" /\ request.path = "/users/"

IsRoot == request.method = "GET" /\ request.path = "/"

IsList == request.method = "GET" /\ request.path = "/users/"

Created == IsCreate /\ response.status = HTTP_201_CREATED

Rejected == IsCreate /\ response.status = HTTP_422_UNPROCESSABLE

RequiredFields == {"username", "email", "password"}

\* the detail list of a 422 has an entry whose location is the field
Names(detail, field) == \E i \in 1..Len(detail) : detail[i].loc = <<"body", field>>

IsPrefix(s, t) == Len(s) <= Len(t) /\ SubSeq(t, 1, Len(s)) = s

Last(s) == s[Len(s)]

\* the string values of a JSON object
ObjectStrings(obj) == {obj[k].val : k \in {x \in DOMAIN obj : obj[x].type = "str"}}

\* every string value a response carries (a 422 carries field names and error
\* kinds only)
StringsOf(req, resp) ==
    IF req.method = "POST" /\ resp.status = HTTP_201_CREATED THEN ObjectStrings(resp.body)
    ELSE IF req.method = "GET" /\ req.path = "/" THEN ObjectStrings(resp.body)
    ELSE IF req.method = "GET" /\ req.path = "/users/"
         THEN UNION {ObjectStrings(resp.body[i]) : i \in 1..Len(resp.body)}
    ELSE {}

\* C1: a body lacking username, email or password is answered 422 with an
\* entry naming each missing field, and the store is exactly as before.
C1_MissingFieldRejected ==
    [][(/\ request'.method = "POST"
        /\ \E f \in RequiredFields : f \notin DOMAIN request'.body)
       => /\ response'.status = HTTP_422_UNPROCESSABLE
          /\ \A f \in RequiredFields :
                f \notin DOMAIN request'.body => Names(response'.body.detail, f)
          /\ fake_db' = fake_db]_vars

C1_Witness ==
    /\ Rejected
    /\ "username" \notin DOMAIN request.body
    /\ Names(response.body.detail, "username")
    /\ Len(fake_db) = 1

\* C2: the 201 response has no password and no hashed_password field, none of
\* its values contains the submitted password or its digest, and it is the
\* same response whatever password was submitted.
C2_ResponseRedacted ==
    Created =>
        /\ "password" \notin DOMAIN response.body
        /\ "hashed_password" \notin DOMAIN response.body
        /\ \A v \in ObjectStrings(response.body) :
              /\ ~Contains(v, request.body["password"].val)
              /\ ~Contains(v, Last(fake_db).hashed_password)
        /\ \A p \in Passwords :
              create_user([request.body EXCEPT !["password"] = JStr(p)],
                          Last(fake_db).join_date,
                          SubSeq(fake_db, 1, Len(fake_db) - 1)).response = response

C2_Witness ==
    /\ Created
    /\ request.body["password"].val = <<"q", "w">>
    /\ Last(fake_db).hashed_password = HashedPrefix \o <<"q", "w">>

\* C3: no response of root, create_user or get_all_users carries a string
\* value containing a password submitted in a registration.
C3_NoPlaintextPassword ==
    \A i \in 1..Len(history) :
        \A v \in StringsOf(request, response) : ~Contains(v, history[i].password)

\* C4 as claimed: the listing returns exactly the registered records, in
\* submission order, with non-decreasing join timestamps.
C4_ListingOrderedAndMonotonic ==
    IsList =>
        /\ Len(response.body) = Len(history)
        /\ \A i \in 1..Len(history) :
              [k \in DOMAIN history[i].out |-> response.body[i][k]] = history[i].out
        /\ \A i, j \in 1..Len(response.body) :
              i < j => fromisoformat(response.body[i]["join_date"].val)
                          <= fromisoformat(response.body[j]["join_date"].val)

\* C4 amended: the listing returns exactly the registered records, in
\* submission order, each with the clock reading taken at its registration.
C4_ListingOrdered ==
    IsList =>
        /\ Len(response.body) = Len(history)
        /\ \A i \in 1..Len(history) :
              /\ [k \in DOMAIN history[i].out |-> response.body[i][k]] = history[i].out
              /\ fromisoformat(response.body[i]["join_date"].val) = history[i].now

C4_Witness ==
    /\ IsList
    /\ Len(response.body) = 2
    /\ response.body[1] # response.body[2]
    /\ fromisoformat(response.body[1]["join_date"].val)
          > fromisoformat(response.body[2]["join_date"].val)

\* C5 as claimed: every stored record has a non-empty username and a valid email.
C5_UsernameNonEmpty ==
    \A i \in 1..Len(fake_db) :
        fake_db[i].username # <<>> /\ EmailSyntaxOk(fake_db[i].email)

\* C5 amended: every stored record has a valid email, and the username of a
\* record is the submitted string, whatever its length, the empty one included.
C5_StoredEmailValid ==
    /\ Created => Last(fake_db).username = request.body["username"].val
    /\ \A i \in 1..Len(fake_db) :
        EmailSyntaxOk(fake_db[i].email)

C5_Witness ==
    /\ Created
    /\ request.body["username"].val = <<>>
    /\ Last(fake_db).username = <<>>
    /\ \E i \in 1..Len(history) : history[i].password = <<"q", "w">>

\* C6 as claimed: 201 with exactly {username, email, full_name, joined_at},
\* the first three verbatim, joined_at the appended record's timestamp.
C6_ResponseVerbatimJoinedAt ==
    Created =>
        /\ DOMAIN response.body = {"username", "email", "full_name", "joined_at"}
        /\ response.body["username"] = request.body["username"]
        /\ response.body["email"] = request.body["email"]
        /\ response.body["full_name"] =
              (IF "full_name" \in DOMAIN request.body
               THEN request.body["full_name"] ELSE JNull)
        /\ fromisoformat(response.body["joined_at"].val) = Last(fake_db).join_date

\* C6 amended: 201 with exactly {username, email, full_name, join_date};
\* username and full_name verbatim, email as normalised by the validation,
\* join_date the appended record's timestamp.
C6_ResponseShape ==
    Created =>
        /\ DOMAIN response.body = {"username", "email", "full_name", "join_date"}
        /\ response.body["username"] = request.body["username"]
        /\ response.body["email"].val = Last(fake_db).email
        /\ response.body["email"].val = EmailNormalized(request.body["email"].val)
        /\ response.body["full_name"] =
              (IF "full_name" \in DOMAIN request.body
               THEN request.body["full_name"] ELSE JNull)
        /\ fromisoformat(response.body["join_date"].val) = Last(fake_db).join_date

C6_Witness ==
    /\ Created
    /\ request.body["email"].val = UnnormalizedEmail
    /\ response.body["email"].val = GoodEmail
    /\ response.body["username"] = JStr(<<"u">>)

\* C7: a body whose email is a string that is not email-shaped is answered
\* 422 with an entry naming email, and the store is exactly as before.
C7_BadEmailRejected ==
    [][(/\ request'.method = "POST"
        /\ "email" \in DOMAIN request'.body
        /\ request'.body["email"] \in {JStr(b) : b \in BadEmails})
       => /\ response'.status = HTTP_422_UNPROCESSABLE
          /\ Names(response'.body.detail, "email")
          /\ fake_db' = fake_db]_vars

C7_Witness ==
    /\ Rejected
    /\ RequiredFields \subseteq DOMAIN request.body
    /\ request.body["email"] = JStr(<<"a", "@", "b">>)
    /\ response.body.detail = <<ErrorEntry("value_error", "email")>>
    /\ Len(fake_db) = 1

\* C8: a body with valid username, email and password and no full_name is
\* answered 201, appends one record with full_name None and returns
\* full_name null; a missing full_name is never named in a 422.
C8_FullNameOptional ==
    [][(/\ request'.method = "POST"
        /\ "full_name" \notin DOMAIN request'.body)
       => /\ request'.body \in ValidBodies =>
                /\ response'.status = HTTP_201_CREATED
                /\ Len(fake_db') = Len(fake_db) + 1
                /\ IsPrefix(fake_db, fake_db')
                /\ Last(fake_db').full_name = JNull
                /\ response'.body["full_name"] = JNull
          /\ response'.status = HTTP_422_UNPROCESSABLE =>
                ~Names(response'.body.detail, "full_name")]_vars

C8_Witness ==
    /\ Created
    /\ "full_name" \notin DOMAIN request.body
    /\ Last(fake_db).full_name = JNull
    /\ response.body["full_name"] = JNull

\* C9: the store only grows at its end; root and get_all_users leave it as
\* it is; root always answers the same message.
C9_AppendOnly ==
    [][/\ IsPrefix(fake_db, fake_db')
       /\ request'.method = "GET" => fake_db' = fake_db
       /\ (request'.method = "GET" /\ request'.path = "/") =>
             response' = [status |-> HTTP_200_OK,
                          body   |-> [message |-> JStr(RunningMessage)]]]_vars

C9_Witness ==
    /\ IsList
    /\ Len(fake_db) = 2
    /\ Len(response.body) = 2

\* C10: in every reachable store, the status create_user gives a body is the
\* status it gives on the empty store, and a valid body appends one record,
\* also when its username and email are already stored.
C10_AcceptanceIgnoresStore ==
    \A body \in Payloads :
        LET r == create_user(body, 1, fake_db)
        IN  /\ r.response.status = create_user(body, 1, <<>>).response.status
            /\ body \in ValidBodies =>
                  /\ r.response.status = HTTP_201_CREATED
                  /\ Len(r.db) = Len(fake_db) + 1

C10_Witness ==
    /\ Created
    /\ Len(fake_db) = 2
    /\ fake_db[1].username = fake_db[2].username
    /\ fake_db[1].email = fake_db[2].email

====
